---- MODULE Spec2Model ----
(***************************************************************************)
(* Ranking pipeline of the Trendyol unified search backend                 *)
(* (src/backend/prod): score fusion, top-K selection, lexical and semantic *)
(* pipelines, catalog join, and the request dispatcher with its loader and *)
(* refresh.                                                                *)
(*                                                                         *)
(* Conventions.                                                            *)
(*  - Sequences are 1-based: position i of the model is Python index i-1.  *)
(*  - Scores are fixed-point integers.  minmax returns multiples of        *)
(*    1/Scale; fused scores carry the extra factor 10 of the weights       *)
(*    (0.3 -> 3, 0.7 -> 7, 0.8 -> 8, 0.2 -> 2).                            *)
(*  - A nullable cell is <<>> (null) or <<v>>.                             *)
(*  - np.argsort uses the default kind, which is not stable: the order of  *)
(*    equal keys is a choice among all sorting permutations.               *)
(***************************************************************************)
EXTENDS Integers, Sequences, FiniteSets, TLC

VARIABLES
  art,       \* ai_model module globals: which artifacts are loaded
  fe,        \* ai_model.fe: catalog snapshot used by the join (<<>> none, <<rows>>)
  imported,  \* the names main.py bound with "from ai_model import ..."
  df,        \* service.df: catalog snapshot of the DB engine (<<>> none, <<ver>>)
  loop,      \* handler currently running on the event loop ("idle" when free)
  req,       \* the handlers in flight: [search |-> ..., refresh |-> ...]
  resp,      \* last response sent
  inp,       \* arguments of the pipeline call under way
  pc,        \* position inside the pipeline call
  loc,       \* locals of the pipeline call
  ret        \* value returned by the pipeline call

vars == <<art, fe, imported, df, loop, req, resp, inp, pc, loc, ret>>

(***************************************************************************)
(* Bounds                                                                  *)
(***************************************************************************)
MaxLen == 3      \* candidates per score array
MaxScore == 2    \* raw scores range over 0..MaxScore
Scale == 100     \* fixed-point resolution of normalised scores

(***************************************************************************)
(* Program constants                                                       *)
(***************************************************************************)
W_CLICK == 3     \* 0.3 * minmax(s_click)
W_ORDER == 7     \* 0.7 * minmax(s_order)

Null == <<>>
Val(v) == <<v>>

(***************************************************************************)
(* numpy helpers                                                           *)
(***************************************************************************)
SeqMin(a) == CHOOSE x \in {a[i] : i \in DOMAIN a} : \A j \in DOMAIN a : x <= a[j]
SeqMax(a) == CHOOSE x \in {a[i] : i \in DOMAIN a} : \A j \in DOMAIN a : x >= a[j]

\* (x - mn) / (mx - mn + 1e-12) on the 1/Scale grid, rounded to nearest.
\* The 1e-12 lies below the grid: its only effect is that an exact half
\* rounds down.
NormCell(x, mn, mx) == (2 * (x - mn) * Scale + (mx - mn) - 1) \div (2 * (mx - mn))

\* mutant: forgets to subtract the minimum
minmax_nomin(a) ==
  IF Len(a) = 0 THEN a
  ELSE LET mn == SeqMin(a)
           mx == SeqMax(a)
       IN IF mx > mn THEN [i \in DOMAIN a |-> NormCell(a[i], 0, mx - mn)]
          ELSE [i \in DOMAIN a |-> 0]

minmax(a) ==
  IF Len(a) = 0 THEN a
  ELSE LET mn == SeqMin(a)
           mx == SeqMax(a)
       IN IF mx > mn THEN [i \in DOMAIN a |-> NormCell(a[i], mn, mx)]
          ELSE [i \in DOMAIN a |-> 0]

Neg(a) == [i \in DOMAIN a |-> 0 - a[i]]
Reverse(s) == [i \in DOMAIN s |-> s[Len(s) + 1 - i]]

\* s[:k]
Take(s, k) ==
  LET m == IF k >= 0 THEN (IF k < Len(s) THEN k ELSE Len(s))
           ELSE (IF Len(s) + k > 0 THEN Len(s) + k ELSE 0)
  IN SubSeq(s, 1, m)

\* np.argsort(a): every permutation of the positions in todo that lists a
\* in ascending order
RECURSIVE SortOrders(_, _)
SortOrders(a, todo) ==
  IF todo = {} THEN {<<>>}
  ELSE LET least == {i \in todo : \A j \in todo : a[i] <= a[j]}
       IN UNION {{<<i>> \o t : t \in SortOrders(a, todo \ {i})} : i \in least}

argsort(a) == SortOrders(a, DOMAIN a)

Gather(a, idx) == [i \in DOMAIN idx |-> a[idx[i]]]

\* mutant: the two weights are exchanged
fuse_swapped(s_click, s_order) ==
  LET c == minmax(s_click)
      o == minmax(s_order)
  IN [i \in DOMAIN s_click |-> W_ORDER * c[i] + W_CLICK * o[i]]

\* final = 0.3 * minmax(s_click) + 0.7 * minmax(s_order)
fuse(s_click, s_order) ==
  LET c == minmax(s_click)
      o == minmax(s_order)
  IN [i \in DOMAIN s_click |-> W_CLICK * c[i] + W_ORDER * o[i]]

\* mutant: sorts ascending (the negation is lost)
select_top_k_asc(final, k) == {Take(p, k) : p \in argsort(final)}

\* order_idx = np.argsort(-final)[:k]
select_top_k(final, k) == {Take(p, k) : p \in argsort(Neg(final))}

(***************************************************************************)
(* Values of the variables a specification does not use                    *)
(***************************************************************************)
NoArt == [vec |-> FALSE, X_corpus |-> FALSE, id_list |-> FALSE,
          m_click |-> FALSE, m_order |-> FALSE, sbert_model |-> FALSE,
          sbert_ids |-> FALSE, faiss_index |-> FALSE, reranker |-> FALSE]
NoCall == [fn |-> "none"]

ServerIdle ==
  /\ art = NoArt /\ fe = Null /\ imported = NoArt /\ df = Null
  /\ loop = "idle" /\ req = NoCall /\ resp = NoCall

ServerUnchanged == UNCHANGED <<art, fe, imported, df, loop, req, resp>>

(***************************************************************************)
(* Score fusion and top-K selection (ml_search steps 4)                    *)
(***************************************************************************)
ScoreArrays == UNION {[1..n -> 0..MaxScore] : n \in 0..MaxLen}

\* model predictions 0.2, 0.8 and 0.6, 0.4, in tenths
ClickTenths == <<2, 8>>
OrderTenths == <<6, 4>>

InitFusion ==
  /\ ServerIdle
  /\ \E a \in ScoreArrays \cup {ClickTenths}, k \in 0..(MaxLen + 1) :
       \E b \in [DOMAIN a -> 0..MaxScore] \cup {OrderTenths} :
         /\ (a = ClickTenths) <=> (b = OrderTenths)
         /\ inp = [fn |-> "fuse", s_click |-> a, s_order |-> b, k |-> k]
  /\ pc = "start"
  /\ loc = NoCall
  /\ ret = NoCall

Normalise ==
  /\ pc = "start" /\ inp.fn = "fuse"
  /\ loc' = [mm_click |-> minmax(inp.s_click), mm_order |-> minmax(inp.s_order)]
  /\ pc' = "normalised"
  /\ UNCHANGED <<inp, ret>>
  /\ ServerUnchanged

Fuse ==
  /\ pc = "normalised" /\ inp.fn = "fuse"
  /\ loc' = [mm_click |-> loc.mm_click, mm_order |-> loc.mm_order,
             final |-> fuse(inp.s_click, inp.s_order)]
  /\ pc' = "fused"
  /\ UNCHANGED <<inp, ret>>
  /\ ServerUnchanged

SelectTopK ==
  /\ pc = "fused" /\ inp.fn = "fuse"
  /\ \E order_idx \in select_top_k(loc.final, inp.k) :
       ret' = [order_idx |-> order_idx, score |-> Gather(loc.final, order_idx)]
  /\ pc' = "done"
  /\ UNCHANGED <<inp, loc>>
  /\ ServerUnchanged

NextFusion == Normalise \/ Fuse \/ SelectTopK

SpecFusion == InitFusion /\ [][NextFusion]_vars

(***************************************************************************)
(* Catalog snapshot and catalog join                                       *)
(*                                                                         *)
(* Of the thirteen columns of fe the model keeps one or more of each kind: *)
(* text (content_title, image_url, level2/leaf_category_name), numeric     *)
(* (selling_price, original_price, content_review_count,                   *)
(* content_rate_count) and the nullable rating (content_rate_avg).         *)
(* "Urun" stands for the title placeholder of the source.                  *)
(***************************************************************************)
MaxCatalog == 2   \* rows of a catalog snapshot

CorpusIds == <<"a", "b", "c">>      \* id_list of the lexical corpus
CatalogIds == {"a", "b"}            \* products the parquet file can hold

Product(id) ==
  IF id = "a"
  THEN [content_id_hashed |-> "a", content_title |-> Val("Elbise"),
        image_url |-> Val("img"), level2_category_name |-> Val("Giyim"),
        leaf_category_name |-> Val("Elbise"),
        selling_price |-> Val(80), original_price |-> Val(100),
        content_rate_avg |-> Val(4), content_review_count |-> Val(5),
        content_rate_count |-> Val(7)]
  ELSE [content_id_hashed |-> id, content_title |-> Null,
        image_url |-> Val("img"), level2_category_name |-> Val("Ayakkabi"),
        leaf_category_name |-> Val("Ayakkabi"),
        selling_price |-> Val(50), original_price |-> Val(50),
        content_rate_avg |-> Null, content_review_count |-> Val(0),
        content_rate_count |-> Val(0)]

CatalogColumns == DOMAIN Product("a") \ {"content_id_hashed"}

\* the tables pl.read_parquet(FE_PATH) can return: nothing in the loaders
\* checks that content_id_hashed is unique
Snapshots ==
  UNION {[1..n -> {Product(id) : id \in CatalogIds}] : n \in 0..MaxCatalog}

SnapshotIds(snap) == {snap[i].content_id_hashed : i \in DOMAIN snap}
UniqueKeys(snap) ==
  \A i, j \in DOMAIN snap :
     snap[i].content_id_hashed = snap[j].content_id_hashed => i = j

RECURSIVE Concat(_)
Concat(ss) == IF ss = <<>> THEN <<>> ELSE Head(ss) \o Concat(Tail(ss))

\* rows of the snapshot that match one left row, in snapshot order; one
\* all-null row when there is none
MatchRows(row, snap) ==
  LET hit(r) == r.content_id_hashed = row.content_id_hashed
      hits == SelectSeq(snap, hit)
  IN IF hits = <<>>
     THEN <<row @@ [c \in CatalogColumns |-> Null]>>
     ELSE [i \in DOMAIN hits |-> row @@ hits[i]]

\* mutant: how="inner" drops the rows without a match
InnerJoin(left, snap) ==
  LET hit(row) == row.content_id_hashed \in SnapshotIds(snap)
  IN Concat([i \in DOMAIN SelectSeq(left, hit) |->
               MatchRows(SelectSeq(left, hit)[i], snap)])

\* left.join(fe, on="content_id_hashed", how="left")
LeftJoin(left, snap) == Concat([i \in DOMAIN left |-> MatchRows(left[i], snap)])

FillNull(row, defaults) ==
  [c \in DOMAIN row |->
     IF c \in DOMAIN defaults /\ row[c] = Null THEN defaults[c] ELSE row[c]]

\* mutant: the rating column is left out of the fill list
MlDefaultsNoRating ==
  [selling_price |-> Val(0), original_price |-> Val(0),
   content_review_count |-> Val(0),
   content_rate_count |-> Val(0), content_title |-> Val("Urun"),
   level2_category_name |-> Val(""), leaf_category_name |-> Val(""),
   image_url |-> Val("")]

\* fill_null list of ml_search
MlDefaults ==
  [selling_price |-> Val(0), original_price |-> Val(0),
   content_rate_avg |-> Val(0), content_review_count |-> Val(0),
   content_rate_count |-> Val(0), content_title |-> Val("Urun"),
   level2_category_name |-> Val(""), leaf_category_name |-> Val(""),
   image_url |-> Val("")]

\* fill_null list of hybrid_search.hybrid_semantic_search
HybridDefaults ==
  [selling_price |-> Val(0), content_rate_avg |-> Val(0),
   content_review_count |-> Val(0), content_title |-> Val("Urun"),
   image_url |-> Val("")]

IdFrame(ids) == [i \in DOMAIN ids |-> [content_id_hashed |-> ids[i]]]

\* df.join(fe, ...).with_columns([... fill_null ...]) of ml_search
ml_join(left, snap) ==
  LET j == LeftJoin(left, snap)
  IN [i \in DOMAIN j |-> FillNull(j[i], MlDefaults)]

\* scores_df.join(fe, ...).with_columns([... fill_null ...]) of hybrid_search
hybrid_join(left, snap) ==
  LET j == LeftJoin(left, snap)
  IN [i \in DOMAIN j |-> FillNull(j[i], HybridDefaults)]

IdSeqs == UNION {[1..n -> {CorpusIds[i] : i \in DOMAIN CorpusIds}] : n \in 0..MaxLen}

InitJoin ==
  /\ ServerIdle
  /\ \E ids \in IdSeqs, snap \in Snapshots :
       inp = [fn |-> "join", ids |-> ids, snap |-> snap]
  /\ pc = "start"
  /\ loc = NoCall
  /\ ret = NoCall

JoinMl ==
  /\ pc = "start" /\ inp.fn = "join"
  /\ ret' = [kind |-> "ml", rows |-> ml_join(IdFrame(inp.ids), inp.snap)]
  /\ pc' = "done"
  /\ UNCHANGED <<inp, loc>>
  /\ ServerUnchanged

JoinHybrid ==
  /\ pc = "start" /\ inp.fn = "join"
  /\ ret' = [kind |-> "hybrid", rows |-> hybrid_join(IdFrame(inp.ids), inp.snap)]
  /\ pc' = "done"
  /\ UNCHANGED <<inp, loc>>
  /\ ServerUnchanged

NextJoin == JoinMl \/ JoinHybrid

SpecJoin == InitJoin /\ [][NextJoin]_vars

(***************************************************************************)
(* C8 as stated: for every snapshot content the join returns exactly one   *)
(* row per requested ID, in the order of the requested IDs.                *)
(***************************************************************************)
OneRowPerId(ids, rows) ==
  /\ Len(rows) = Len(ids)
  /\ \A i \in DOMAIN rows : rows[i].content_id_hashed = ids[i]

CexC8 == (inp.fn = "join" /\ pc = "done") => OneRowPerId(inp.ids, ret.rows)

(***************************************************************************)
(* C8 amended: for every snapshot that holds at most one row per product   *)
(* ID, the join returns exactly one row per requested ID, in the order of  *)
(* the requested IDs; IDs missing from the snapshot do not remove rows.    *)
(***************************************************************************)
ThmC8 ==
  (inp.fn = "join" /\ pc = "done" /\ UniqueKeys(inp.snap)) =>
     OneRowPerId(inp.ids, ret.rows)

WitC8 ==
  /\ inp.fn = "join" /\ pc = "done" /\ UniqueKeys(inp.snap)
  /\ inp.ids = <<"c", "a", "c">>
  /\ SnapshotIds(inp.snap) = {"a", "b"}
  /\ Len(ret.rows) = 3

(***************************************************************************)
(* C9 as stated: a candidate ID absent from the snapshot yields a row      *)
(* whose numeric attributes are 0, whose text attributes are the           *)
(* placeholder string and whose rating average is null.                    *)
(***************************************************************************)
NumericColumns == {"selling_price", "original_price", "content_review_count",
                   "content_rate_count"}
TextColumns == {"content_title", "image_url", "level2_category_name",
                "leaf_category_name"}

MissRows(rows, snap) ==
  {i \in DOMAIN rows : rows[i].content_id_hashed \notin SnapshotIds(snap)}

CexC9 ==
  (inp.fn = "join" /\ pc = "done" /\ ret.kind = "ml") =>
     \A i \in MissRows(ret.rows, inp.snap) :
        /\ \A c \in NumericColumns : ret.rows[i][c] = Val(0)
        /\ \A c \in TextColumns : ret.rows[i][c] = Val("Urun")
        /\ ret.rows[i].content_rate_avg = Null

(***************************************************************************)
(* C9 amended: a candidate ID absent from the snapshot yields one output   *)
(* row and no error.  In ml_search its numeric attributes are 0, its       *)
(* rating average is 0.0 (not null), its title is the placeholder and its  *)
(* other text attributes are the empty string.  In hybrid_search the same  *)
(* holds of the five columns that function fills (selling price, rating    *)
(* average, review count, title, image url); the other columns stay null.  *)
(***************************************************************************)
ThmC9 ==
  (inp.fn = "join" /\ pc = "done") =>
     \A i \in MissRows(ret.rows, inp.snap) :
        LET r == ret.rows[i]
            filled == IF ret.kind = "ml" THEN DOMAIN MlDefaults
                      ELSE DOMAIN HybridDefaults
        IN /\ \A c \in (NumericColumns \cup {"content_rate_avg"}) \cap filled :
                r[c] = Val(0)
           /\ ("content_title" \in filled => r.content_title = Val("Urun"))
           /\ \A c \in (TextColumns \ {"content_title"}) \cap filled :
                r[c] = Val("")
           /\ \A c \in CatalogColumns \ filled : r[c] = Null
           /\ (ret.kind = "ml" => filled = CatalogColumns)

WitC9 ==
  /\ inp.fn = "join" /\ pc = "done" /\ ret.kind = "ml"
  /\ inp.ids = <<"a", "c">>
  /\ SnapshotIds(inp.snap) = {"a"}
  /\ ret.rows[2].content_rate_avg = Val(0)
  /\ ret.rows[1].content_rate_avg = Val(4)

(***************************************************************************)
(* Query normaliser.  A query is a sequence of characters of the alphabet  *)
(*   "a" letter, "A" upper-case letter, "1" digit, " " whitespace,         *)
(*   "-" one of _ / - \, "!" any other character,                          *)
(*   "ce" a precomposed accented letter (c-cedilla), which NFKD splits     *)
(*   into the letter "c" and the combining mark "~",                       *)
(*   "bH" a letter-like symbol without lower case (black-letter H), which  *)
(*   NFKD turns into a capital letter.                                     *)
(***************************************************************************)
Chars == {"a", "A", "1", " ", "-", "!", "ce", "c", "~", "bH"}

Lower(c) == IF c = "A" THEN "a" ELSE c
NFKD(c) == IF c = "ce" THEN <<"c", "~">> ELSE IF c = "bH" THEN <<"A">> ELSE <<c>>

RECURSIVE LStrip(_)
LStrip(s) == IF s # <<>> /\ Head(s) = " " THEN LStrip(Tail(s)) ELSE s
Strip(s) == Reverse(LStrip(Reverse(LStrip(s))))

\* re.sub(r"\s+", " ", s)
RECURSIVE Collapse(_)
Collapse(s) ==
  IF Len(s) < 2 THEN s
  ELSE IF s[1] = " " /\ s[2] = " " THEN Collapse(Tail(s))
  ELSE <<Head(s)>> \o Collapse(Tail(s))

\* re.sub(r"[_/\-\\]", " ", s) then re.sub(r"[^0-9a-z...\s]", " ", s)
Keep(c) == IF c \in {"a", "c", "1", " ", "ce"} THEN c ELSE " "

\* a query value that is not a str (None, a number, ...)
NonString == <<"<not a str>">>
IsStr(s) == s # NonString

\* mutant: the characters are filtered before the NFKD decomposition
norm_query_late_nfkd(s) ==
  IF ~IsStr(s) THEN <<>> ELSE
  LET s1 == Strip([i \in DOMAIN s |-> Lower(s[i])])
      s2 == [i \in DOMAIN s1 |-> Keep(s1[i])]
      s3 == Concat([i \in DOMAIN s2 |-> NFKD(s2[i])])
  IN Strip(Collapse(s3))

norm_query(s) ==
  IF ~IsStr(s) THEN <<>> ELSE
  LET s1 == Strip([i \in DOMAIN s |-> Lower(s[i])])
      s2 == Concat([i \in DOMAIN s1 |-> NFKD(s1[i])])
      s3 == [i \in DOMAIN s2 |-> Keep(s2[i])]
  IN Strip(Collapse(s3))

(***************************************************************************)
(* Lexical pipeline: retrieve_ids, tfidf_score, ml_search (ai_model.py;    *)
(* ml_search.py and api_server.rank_query share steps 1-4)                 *)
(***************************************************************************)
\* id_to_idx = {cid: i for i, cid in enumerate(id_list)}: the last row wins
id_to_idx(cid) ==
  CHOOSE i \in DOMAIN CorpusIds :
     /\ CorpusIds[i] = cid
     /\ \A j \in DOMAIN CorpusIds : CorpusIds[j] = cid => j <= i

EmptyFrame == [kind |-> "frame", rows |-> <<>>]

\* the readiness test that opens ml_search
MlReady(a, f) == a.vec /\ a.X_corpus /\ a.m_click /\ a.m_order /\ f # Null

\* mutant: the reversal is lost, the rows come out in ascending similarity
retrieve_ids_asc(a, query, sims, topk) ==
  IF ~a.vec \/ ~a.X_corpus THEN {[kind |-> "ok", order |-> <<>>]}
  ELSE IF norm_query(query) = <<>> THEN {[kind |-> "ok", order |-> <<>>]}
  ELSE LET orders == {Take(p, topk) : p \in argsort(sims)}
       IN IF ~a.id_list /\ topk # 0
          THEN {[kind |-> "raise", error |-> "TypeError"]}
          ELSE {[kind |-> "ok", order |-> o] : o \in orders}

\* order = np.argsort(sims)[::-1][:topk]; the set of results over all tie orders
retrieve_ids(a, query, sims, topk) ==
  IF ~a.vec \/ ~a.X_corpus THEN {[kind |-> "ok", order |-> <<>>]}
  ELSE IF norm_query(query) = <<>> THEN {[kind |-> "ok", order |-> <<>>]}
  ELSE LET orders == {Take(Reverse(p), topk) : p \in argsort(sims)}
       IN IF ~a.id_list /\ topk # 0
          THEN {[kind |-> "raise", error |-> "TypeError"]}
          ELSE {[kind |-> "ok", order |-> o] : o \in orders}

tfidf_score(a, query, cid, sims) ==
  IF ~a.vec \/ ~a.X_corpus \/ ~a.id_list
       \/ cid \notin {CorpusIds[i] : i \in DOMAIN CorpusIds} THEN 0
  ELSE IF norm_query(query) = <<>> THEN 0
  ELSE sims[id_to_idx(cid)]

\* .join(scores_df, on="_row", how="inner").sort("_row").drop("_row")
AssembleByRow(frame, final, order_idx) ==
  LET chosen(i) == \E j \in DOMAIN order_idx : order_idx[j] = i
      rowsIdx == SelectSeq([i \in DOMAIN frame |-> i], chosen)
  IN [j \in DOMAIN rowsIdx |->
        frame[rowsIdx[j]] @@ [score |-> final[rowsIdx[j]]]]

AllLex == [NoArt EXCEPT !.vec = TRUE, !.X_corpus = TRUE, !.id_list = TRUE,
                        !.m_click = TRUE, !.m_order = TRUE]
LexConfigs ==
  {[NoArt EXCEPT !.vec = v, !.X_corpus = x, !.id_list = l,
                 !.m_click = c, !.m_order = o] :
     v \in BOOLEAN, x \in BOOLEAN, l \in BOOLEAN, c \in BOOLEAN, o \in BOOLEAN}

QueryText == <<"A", "-", "ce">>     \* normalises to "a c"
QueryBlank == <<" ", "!">>          \* normalises to the empty string

\* snapshots of at most one row: enough for hits and misses of the join
LexSnapshots == {snap \in Snapshots : Len(snap) <= 1}
Sims == [DOMAIN CorpusIds -> 0..MaxScore]
Models == [0..MaxScore -> 0..1]     \* a regressor over the single feature

InitLexical ==
  /\ imported = NoArt /\ df = Null
  /\ loop = "idle" /\ req = NoCall /\ resp = NoCall
  /\ \/ /\ art = AllLex
        /\ \E snap \in LexSnapshots : fe = Val(snap)
        /\ \E sims \in Sims, click \in Models, order \in Models,
              kr \in {MaxLen - 1, MaxLen}, kf \in {1, 2} :
             inp = [fn |-> "ml_search", query |-> QueryText, sims |-> sims,
                    m_click |-> click, m_order |-> order,
                    topk_retrieval |-> kr, topk_final |-> kf]
     \/ /\ art \in LexConfigs
        /\ fe \in {Null, Val(<<Product("a")>>)}
        /\ \E q \in {QueryText, QueryBlank} :
             /\ (art = AllLex /\ fe # Null) => q = QueryBlank
             /\ inp = [fn |-> "ml_search", query |-> q,
                       sims |-> [i \in DOMAIN CorpusIds |-> 1],
                       m_click |-> [x \in 0..MaxScore |-> 0],
                       m_order |-> [x \in 0..MaxScore |-> 0],
                       topk_retrieval |-> MaxLen, topk_final |-> 2]
  /\ pc = "start"
  /\ loc = NoCall
  /\ ret = NoCall

PipelineFrame == UNCHANGED <<art, fe, imported, df, loop, req, resp, inp>>

MlCheckReady ==
  /\ pc = "start" /\ inp.fn = "ml_search"
  /\ IF MlReady(art, fe)
     THEN pc' = "recall" /\ ret' = ret
     ELSE pc' = "done" /\ ret' = EmptyFrame
  /\ UNCHANGED loc
  /\ PipelineFrame

MlRecall ==
  /\ pc = "recall" /\ inp.fn = "ml_search"
  /\ \E r \in retrieve_ids(art, inp.query, inp.sims, inp.topk_retrieval) :
       IF r.kind = "raise"
       THEN pc' = "done" /\ ret' = r /\ loc' = loc
       ELSE IF r.order = <<>>
       THEN pc' = "done" /\ ret' = EmptyFrame /\ loc' = loc
       ELSE /\ pc' = "features" /\ ret' = ret
            /\ loc' = [order |-> r.order,
                       ids_ret |-> Gather(CorpusIds, r.order),
                       sims_ret |-> Gather(inp.sims, r.order)]
  /\ PipelineFrame

MlFeatures ==
  /\ pc = "features" /\ inp.fn = "ml_search"
  /\ LET left == [i \in DOMAIN loc.ids_ret |->
                    [content_id_hashed |-> loc.ids_ret[i],
                     tfidf_sim |-> tfidf_score(art, inp.query, loc.ids_ret[i],
                                               inp.sims)]]
     IN loc' = loc @@ [frame |-> ml_join(left, fe[1])]
  /\ pc' = "predict"
  /\ UNCHANGED ret
  /\ PipelineFrame

MlPredict ==
  /\ pc = "predict" /\ inp.fn = "ml_search"
  /\ LET s_click == [i \in DOMAIN loc.frame |-> inp.m_click[loc.frame[i].tfidf_sim]]
         s_order == [i \in DOMAIN loc.frame |-> inp.m_order[loc.frame[i].tfidf_sim]]
     IN loc' = loc @@ [s_click |-> s_click, s_order |-> s_order,
                       final |-> fuse(s_click, s_order)]
  /\ pc' = "select"
  /\ UNCHANGED ret
  /\ PipelineFrame

MlSelect ==
  /\ pc = "select" /\ inp.fn = "ml_search"
  /\ \E order_idx \in select_top_k(loc.final, inp.topk_final) :
       loc' = loc @@ [order_idx |-> order_idx]
  /\ pc' = "assemble"
  /\ UNCHANGED ret
  /\ PipelineFrame

MlAssemble ==
  /\ pc = "assemble" /\ inp.fn = "ml_search"
  /\ ret' = [kind |-> "frame",
             rows |-> AssembleByRow(loc.frame, loc.final, loc.order_idx)]
  /\ pc' = "done"
  /\ UNCHANGED loc
  /\ PipelineFrame

NextLexical ==
  MlCheckReady \/ MlRecall \/ MlFeatures \/ MlPredict \/ MlSelect \/ MlAssemble

SpecLexical == InitLexical /\ [][NextLexical]_vars

(***************************************************************************)
(* C1 as stated: the rows ml_search returns are in ranking order, the      *)
(* fused score of row i being at least the fused score of row i+1.         *)
(***************************************************************************)
CexC1 ==
  (inp.fn = "ml_search" /\ pc = "done" /\ ret.kind = "frame") =>
     \A i \in 1..(Len(ret.rows) - 1) : ret.rows[i].score >= ret.rows[i + 1].score

(***************************************************************************)
(* C3 as stated: a lexical call made while the lexical index, the click    *)
(* model, the order model or the catalog snapshot is not loaded never ends *)
(* in a successful response, empty or not.                                 *)
(***************************************************************************)
LexicalLoaded ==
  art.vec /\ art.X_corpus /\ art.id_list /\ art.m_click /\ art.m_order /\ fe # Null

CexC3 ==
  (inp.fn = "ml_search" /\ pc = "done" /\ ~LexicalLoaded) => ret.kind # "frame"

(***************************************************************************)
(* C7 as stated: of two candidates with equal scores, lexical recall and   *)
(* top-K selection place the one with the lower original index first, and  *)
(* keep the lower one when only one of them fits within k.                 *)
(***************************************************************************)
LowerFirst(scores, idx) ==
  \A i, j \in DOMAIN scores :
     (i < j /\ scores[i] = scores[j]) =>
        \A pj \in DOMAIN idx :
           idx[pj] = j => \E pi \in DOMAIN idx : idx[pi] = i /\ pi < pj

CexC7 ==
  /\ (inp.fn = "ml_search" /\ pc = "features") => LowerFirst(inp.sims, loc.order)
  /\ (inp.fn = "ml_search" /\ pc = "assemble") => LowerFirst(loc.final, loc.order_idx)

(***************************************************************************)
(* Semantic pipeline: sbert_recall and hybrid_semantic_search, in the two  *)
(* variants of the repository: "ai_model" (ai_model.py, the one main.py    *)
(* calls) and "hybrid_search" (hybrid_search.py).                          *)
(***************************************************************************)
W_RERANK == 8    \* 0.8 * minmax(reranker_scores)
W_RECALL == 2    \* 0.2 * minmax(sbert_scores)

SbertIds == <<"a", "c", "b">>       \* sbert_ids, co-indexed with the ANN index

norm_text(s) ==
  IF ~IsStr(s) THEN <<>> ELSE
  LET s1 == Strip([i \in DOMAIN s |-> Lower(s[i])])
      s2 == Concat([i \in DOMAIN s1 |-> NFKD(s1[i])])
      s3 == [i \in DOMAIN s2 |-> Keep(s2[i])]
  IN Strip(Collapse(s3))

\* faiss_index.search(qv, k): the k rows of highest inner product, best
\* first; positions beyond the index size carry label -1 and the lowest
\* score
faiss_search(scores, k) ==
  {[i \in 1..k |->
      IF i <= Len(p) THEN [idx |-> p[i], sim |-> scores[p[i]]]
      ELSE [idx |-> 0 - 1, sim |-> 0 - 1]] : p \in argsort(Neg(scores))}

\* ids = [sbert_ids[i] for i in idxs[0]]: a negative index counts from the end
SbertIdAt(i) == IF i < 0 THEN SbertIds[Len(SbertIds) + 1 + i] ELSE SbertIds[i]

sbert_recall(a, query, scores, topk) ==
  IF ~a.sbert_model \/ ~a.faiss_index \/ ~a.sbert_ids
  THEN {[ids |-> <<>>, scores |-> <<>>]}
  ELSE IF norm_text(query) = <<>> THEN {[ids |-> <<>>, scores |-> <<>>]}
  ELSE {[ids |-> [i \in DOMAIN h |-> SbertIdAt(h[i].idx)],
         scores |-> [i \in DOMAIN h |-> h[i].sim]] : h \in faiss_search(scores, topk)}

Truthy(cell) == cell # Null /\ cell # Val("")

\* build_doc_text: the parts that " ".join concatenates
build_doc_text(title, level2_category, leaf_category) ==
  LET parts == (IF Truthy(title) /\ title # Val("Urun") THEN title ELSE <<>>)
               \o (IF Truthy(level2_category) THEN level2_category ELSE <<>>)
               \o (IF Truthy(leaf_category) /\ leaf_category # level2_category
                   THEN leaf_category ELSE <<>>)
  IN IF parts # <<>> THEN parts ELSE <<"Urun">>

\* texts_for_reranker: the title of each id, the id itself when it is not
\* in the snapshot (dict(zip(...)) keeps the last row of an id)
texts_for_reranker(ids, snap) ==
  [i \in DOMAIN ids |->
     IF ids[i] \in SnapshotIds(snap)
     THEN LET last == CHOOSE r \in DOMAIN snap :
                         /\ snap[r].content_id_hashed = ids[i]
                         /\ \A q \in DOMAIN snap :
                               snap[q].content_id_hashed = ids[i] => q <= r
          IN snap[last].content_title
     ELSE Val(ids[i])]

\* fill_null list of ai_model.hybrid_semantic_search
AiHybridDefaults ==
  [selling_price |-> Val(0), content_rate_avg |-> Val(0),
   content_review_count |-> Val(0), content_title |-> Val("Urun"),
   image_url |-> Val(""), level2_category_name |-> Val(""),
   leaf_category_name |-> Val("")]

\* .join(rank_df, on="__row", how="inner").sort("__rank")
AssembleByRank(frame, scores, order_idx) ==
  [j \in DOMAIN order_idx |->
     FillNull(frame[order_idx[j]], AiHybridDefaults) @@ [score |-> scores[j]]]

\* mutant: the readiness test forgets the ANN index
HybridReady_noindex(fn, a, f) ==
  /\ a.sbert_model /\ a.sbert_ids /\ f # Null
  /\ (fn = "hybrid_search" => a.reranker)

\* the readiness test that opens hybrid_semantic_search
HybridReady(fn, a, f) ==
  /\ a.sbert_model /\ a.faiss_index /\ a.sbert_ids /\ f # Null
  /\ (fn = "hybrid_search" => a.reranker)

AllDense == [NoArt EXCEPT !.sbert_model = TRUE, !.sbert_ids = TRUE,
                          !.faiss_index = TRUE]
DenseConfigs ==
  {[NoArt EXCEPT !.sbert_model = m, !.sbert_ids = i, !.faiss_index = x,
                 !.reranker = r] :
     m \in BOOLEAN, i \in BOOLEAN, x \in BOOLEAN, r \in BOOLEAN}

DenseScores == [DOMAIN SbertIds -> 0..MaxScore]

InitSemantic ==
  /\ imported = NoArt /\ df = Null
  /\ loop = "idle" /\ req = NoCall /\ resp = NoCall
  /\ \E fn \in {"ai_model", "hybrid_search"} :
     \/ /\ art \in {AllDense, [AllDense EXCEPT !.reranker = TRUE]}
        /\ \E snap \in LexSnapshots : fe = Val(snap)
        /\ \E scores \in DenseScores,
              kr \in {MaxLen - 1, MaxLen + 1}, kf \in {1, 2} :
             inp = [fn |-> fn, query |-> QueryText, scores |-> scores,
                    recall_k |-> kr, return_k |-> kf]
     \/ /\ art \in DenseConfigs
        /\ fe \in {Null, Val(<<Product("a")>>)}
        /\ \E q \in {QueryText, QueryBlank} :
             /\ (art.sbert_model /\ art.sbert_ids /\ art.faiss_index /\ fe # Null)
                  => q = QueryBlank
             /\ inp = [fn |-> fn, query |-> q,
                       scores |-> [i \in DOMAIN SbertIds |-> 1],
                       recall_k |-> MaxLen, return_k |-> 2]
  /\ pc = "start"
  /\ loc = NoCall
  /\ ret = NoCall

IsHybrid == inp.fn \in {"ai_model", "hybrid_search"}

HsCheckReady ==
  /\ pc = "start" /\ IsHybrid
  /\ IF HybridReady(inp.fn, art, fe)
     THEN pc' = "recall" /\ ret' = ret
     ELSE pc' = "done" /\ ret' = EmptyFrame
  /\ UNCHANGED loc
  /\ PipelineFrame

HsRecall ==
  /\ pc = "recall" /\ IsHybrid
  /\ \E r \in sbert_recall(art, inp.query, inp.scores, inp.recall_k) :
       IF r.ids = <<>>
       THEN pc' = "done" /\ ret' = EmptyFrame /\ loc' = loc
       ELSE /\ pc' = (IF inp.fn = "ai_model" THEN "join" ELSE "rerank")
            /\ ret' = ret
            /\ loc' = [ids |-> r.ids, sbert_scores |-> r.scores]
  /\ PipelineFrame

\* ai_model: df = pl.DataFrame({"content_id_hashed": ids}).join(fe, how="left")
HsJoin ==
  /\ pc = "join" /\ inp.fn = "ai_model"
  /\ loc' = loc @@ [frame |-> LeftJoin(IdFrame(loc.ids), fe[1])]
  /\ pc' = "rerank"
  /\ UNCHANGED ret
  /\ PipelineFrame

\* reranker.score(query, docs): one score per document, the same score for
\* the same document; raises when reranker is None (ai_model) or when the
\* model fails
HsRerank ==
  /\ pc = "rerank" /\ IsHybrid
  /\ LET docs == IF inp.fn = "ai_model"
                 THEN [i \in DOMAIN loc.frame |->
                         build_doc_text(loc.frame[i].content_title,
                                        loc.frame[i].level2_category_name,
                                        loc.frame[i].leaf_category_name)]
                 ELSE texts_for_reranker(loc.ids, fe[1])
     IN \/ /\ art.reranker
           /\ \E model \in [{docs[i] : i \in DOMAIN docs} -> 0..MaxScore] :
                loc' = loc @@ [docs |-> docs,
                               reranker_scores |-> [i \in DOMAIN docs |-> model[docs[i]]]]
           /\ pc' = "select" /\ ret' = ret
        \/ /\ art.reranker
           /\ pc' = "done" /\ ret' = [kind |-> "raise", error |-> "RerankerError"]
           /\ loc' = loc
        \/ /\ ~art.reranker
           /\ pc' = "done" /\ ret' = [kind |-> "raise", error |-> "AttributeError"]
           /\ loc' = loc
  /\ PipelineFrame

HsSelect ==
  /\ pc = "select" /\ IsHybrid
  /\ IF inp.fn = "ai_model"
     THEN IF art.reranker
          THEN \E order_idx \in select_top_k(loc.reranker_scores, inp.return_k) :
                 loc' = loc @@ [order_idx |-> order_idx,
                                final_scores |-> Gather(loc.reranker_scores, order_idx)]
          ELSE \E order_idx \in select_top_k(loc.sbert_scores, inp.return_k) :
                 loc' = loc @@ [order_idx |-> order_idx,
                                final_scores |-> Gather(loc.sbert_scores, order_idx)]
     ELSE LET rr == minmax(loc.reranker_scores)
              sb == minmax(loc.sbert_scores)
              final == [i \in DOMAIN rr |-> W_RERANK * rr[i] + W_RECALL * sb[i]]
          IN \E order_idx \in select_top_k(final, inp.return_k) :
               loc' = loc @@ [order_idx |-> order_idx,
                              final_scores |-> Gather(final, order_idx)]
  /\ pc' = "assemble"
  /\ UNCHANGED ret
  /\ PipelineFrame

HsAssemble ==
  /\ pc = "assemble" /\ IsHybrid
  /\ IF inp.fn = "ai_model"
     THEN ret' = [kind |-> "frame",
                  rows |-> AssembleByRank(loc.frame, loc.final_scores, loc.order_idx)]
     ELSE LET out_ids == Gather(loc.ids, loc.order_idx)
              scores_df == [i \in DOMAIN out_ids |->
                              [content_id_hashed |-> out_ids[i],
                               score |-> loc.final_scores[i]]]
          IN ret' = [kind |-> "frame", rows |-> hybrid_join(scores_df, fe[1])]
  /\ pc' = "done"
  /\ UNCHANGED loc
  /\ PipelineFrame

NextSemantic ==
  HsCheckReady \/ HsRecall \/ HsJoin \/ HsRerank \/ HsSelect \/ HsAssemble

SpecSemantic == InitSemantic /\ [][NextSemantic]_vars

(***************************************************************************)
(* C4 as stated: with the dense recall engine and the catalog snapshot     *)
(* loaded and the reranker absent, a semantic call whose recall is not     *)
(* empty succeeds with a non-empty list ranked by recall score alone.      *)
(***************************************************************************)
CexC4 ==
  (/\ IsHybrid /\ pc = "done"
   /\ art.sbert_model /\ art.faiss_index /\ art.sbert_ids /\ fe # Null
   /\ ~art.reranker
   /\ norm_text(inp.query) # <<>>)
  => /\ ret.kind = "frame"
     /\ ret.rows # <<>>
     /\ \A i \in 1..(Len(ret.rows) - 1) : ret.rows[i].score >= ret.rows[i + 1].score

(***************************************************************************)
(* The server (main.py): startup, POST /search, GET /search and            *)
(* POST /refresh.  The DB branch of search_products and load_data are      *)
(* followed read by read; the event loop decides which handler may step.   *)
(***************************************************************************)
MaxRefresh == 2     \* refreshes issued after startup

\* "from ai_model import vec, X_corpus, ..., fe, ...": main.py binds the
\* values the names have when ai_model is imported, all None
\* mutant: the dispatcher takes every component for loaded
ImportedAtLoad_ready ==
  [n \in DOMAIN NoArt \cup {"fe"} |-> TRUE]

ImportedAtLoad == NoArt @@ [fe |-> FALSE]

Modes == {"ml", "hybrid", "db", "lexical"}

\* results of ai_model.hybrid_semantic_search as search_products sees them
SemanticOutcomes(a, f, blank) ==
  IF ~HybridReady("ai_model", a, f) THEN {"empty"}
  ELSE IF blank THEN {"empty"}
  ELSE IF ~a.reranker THEN {"raise"}
  ELSE {"rows", "raise"}

\* results of ai_model.ml_search as search_products sees them
LexicalOutcomes(a, f, blank) ==
  IF ~MlReady(a, f) THEN {"empty"}
  ELSE IF blank THEN {"empty"}
  ELSE IF ~a.id_list THEN {"raise"}
  ELSE {"rows", "raise"}

\* async def handlers contain no await: once one has started, the event
\* loop runs nothing else until it returns
\* variant: handlers run on threads and may step at any time
CanRun_threads(h) == TRUE
CanRun(h) == loop \in {"idle", h}

\* no /search request has arrived yet
NoSearch == [fn |-> "none", mode |-> "", blank |-> FALSE, at |-> "done",
             reads |-> <<>>]

Init ==
  /\ art = NoArt /\ fe = Null
  /\ imported = ImportedAtLoad
  /\ df = Null
  /\ loop = "idle"
  /\ req = [search |-> NoSearch, refresh |-> [fn |-> "none", n |-> 0, at |-> "idle"]]
  /\ resp = NoCall
  /\ inp = NoCall /\ loc = NoCall /\ ret = NoCall
  /\ pc = "startup"

\* startup_event: load_data() then load_all_models(); each loader keeps
\* or resets its globals as its except branch says
Startup ==
  /\ pc = "startup"
  /\ df' \in {Null, Val(0)}
  /\ \E tfidf \in 0..3, click \in BOOLEAN, order \in BOOLEAN,
        sbert \in BOOLEAN, rr \in BOOLEAN :
       art' = [vec |-> tfidf >= 1, X_corpus |-> tfidf >= 2, id_list |-> tfidf >= 3,
               m_click |-> click, m_order |-> order,
               sbert_model |-> sbert, sbert_ids |-> sbert, faiss_index |-> sbert,
               reranker |-> rr]
  /\ fe' \in {Null, Val(<<Product("a")>>)}
  /\ pc' = "serving"
  /\ UNCHANGED <<imported, loop, req, resp, inp, loc, ret>>

ServerFrame == UNCHANGED <<art, fe, imported, inp, pc, loc, ret>>

Respond(status, tag, engine, rows) ==
  [handler |-> "search_products", status |-> status, tag |-> tag,
   engine |-> engine, rows |-> rows]

Finish(r) ==
  /\ req' = [req EXCEPT !.search = [r EXCEPT !.at = "done"]]
  /\ loop' = "idle"

\* POST /search arrives and waits for the event loop
SearchArrive ==
  /\ pc = "serving"
  /\ req.search.at = "done"
  /\ \E mode \in Modes, blank \in BOOLEAN :
       req' = [req EXCEPT !.search =
                 [fn |-> "search_products", mode |-> mode, blank |-> blank,
                  at |-> "dispatch", reads |-> <<>>]]
  /\ UNCHANGED <<df, loop, resp>>
  /\ ServerFrame

\* the engines bind what they compute (filtered, sorted_results, df inside
\* ml_search) to local names; no search step assigns the module-level frame
\* variant: db_search declares "global df" and keeps the filtered frame
SearchKeeps_inplace == df' = Val(0 - 1)
SearchKeeps == UNCHANGED df

\* search_products up to the first read of the DB snapshot; the ml and
\* hybrid branches run to their response
SearchDispatch ==
  /\ req.search.fn = "search_products" /\ req.search.at = "dispatch"
  /\ CanRun("search")
  /\ LET r == req.search
         dense == imported.sbert_model /\ imported.faiss_index
                    /\ imported.sbert_ids /\ imported.fe
         lex == imported.vec /\ imported.X_corpus /\ imported.m_click
                  /\ imported.m_order /\ imported.fe
         Served(engine, outcomes) ==
           \E o \in outcomes :
             /\ resp' = IF o = "raise" THEN Respond(500, "", engine, "none")
                        ELSE Respond(200, r.mode, engine, o)
             /\ Finish(r)
     IN IF r.mode = "ml"
        THEN IF dense THEN Served("semantic", SemanticOutcomes(art, fe, r.blank))
             ELSE IF lex THEN Served("lexical", LexicalOutcomes(art, fe, r.blank))
             ELSE resp' = Respond(500, "", "none", "none") /\ Finish(r)
        ELSE IF r.mode = "hybrid"
        THEN IF ~dense THEN resp' = Respond(500, "", "none", "none") /\ Finish(r)
             ELSE Served("semantic", SemanticOutcomes(art, fe, r.blank))
        ELSE \* df = get_database(); if df is None: raise HTTPException
             LET r1 == [r EXCEPT !.reads = Append(@, df)]
             IN IF df = Null
                THEN resp' = Respond(500, "", "none", "none") /\ Finish(r1)
                ELSE /\ req' = [req EXCEPT !.search = [r1 EXCEPT !.at = "db_check"]]
                     /\ loop' = "search"
                     /\ resp' = resp
  /\ SearchKeeps
  /\ ServerFrame

\* db_search: if df is None: return []
DbCheck ==
  /\ req.search.fn = "search_products" /\ req.search.at = "db_check"
  /\ CanRun("search")
  /\ LET r1 == [req.search EXCEPT !.reads = Append(@, df)]
     IN IF df = Null
        THEN resp' = Respond(200, r1.mode, "db", "empty") /\ Finish(r1)
        ELSE /\ req' = [req EXCEPT !.search =
                          [r1 EXCEPT !.at = IF r1.blank THEN "db_sample" ELSE "db_filter"]]
             /\ loop' = "search"
             /\ resp' = resp
  /\ SearchKeeps
  /\ ServerFrame

\* db_search: filtered = df.filter(...); rows when something matches
DbFilter ==
  /\ req.search.fn = "search_products" /\ req.search.at = "db_filter"
  /\ CanRun("search")
  /\ LET r1 == [req.search EXCEPT !.reads = Append(@, df)]
     IN IF df = Null
        THEN resp' = Respond(500, "", "db", "none") /\ Finish(r1)
        ELSE \/ resp' = Respond(200, r1.mode, "db", "rows") /\ Finish(r1)
             \/ /\ req' = [req EXCEPT !.search = [r1 EXCEPT !.at = "db_sample"]]
                /\ loop' = "search"
                /\ resp' = resp
  /\ SearchKeeps
  /\ ServerFrame

\* db_search: return df.sample(min(limit, len(df))).to_dicts()
DbSample ==
  /\ req.search.fn = "search_products" /\ req.search.at = "db_sample"
  /\ CanRun("search")
  /\ LET r1 == [req.search EXCEPT !.reads = Append(@, df)]
     IN /\ resp' = IF df = Null THEN Respond(500, "", "db", "none")
                   ELSE Respond(200, r1.mode, "db", "rows")
        /\ Finish(r1)
  /\ SearchKeeps
  /\ ServerFrame

\* GET /search: search_products(request) is called without await, so its
\* body never runs and the coroutine object cannot be serialised
SearchGet ==
  /\ pc = "serving"
  /\ resp' = [handler |-> "search_get", status |-> 500, tag |-> "",
              engine |-> "none", rows |-> "none"]
  /\ UNCHANGED <<df, loop, req>>
  /\ ServerFrame

\* POST /refresh arrives and waits for the event loop
RefreshArrive ==
  /\ pc = "serving"
  /\ req.refresh.fn = "none"
  /\ req.refresh.n < MaxRefresh
  /\ req' = [req EXCEPT !.refresh =
               [fn |-> "refresh_data", n |-> @.n + 1, at |-> "load"]]
  /\ UNCHANGED <<df, loop, resp>>
  /\ ServerFrame

\* load_data: df = pl.read_parquet(FE_PATH), df = None when it raises
RefreshLoad ==
  /\ req.refresh.fn = "refresh_data" /\ req.refresh.at = "load"
  /\ CanRun("refresh")
  /\ \/ df' = Val(req.refresh.n) /\ req' = [req EXCEPT !.refresh.at = "log"]
     \/ df' = Null /\ req' = [req EXCEPT !.refresh.at = "respond"]
  /\ loop' = "refresh"
  /\ UNCHANGED resp
  /\ ServerFrame

\* load_data: the log lines after the assignment; df = None when they raise
RefreshLog ==
  /\ req.refresh.fn = "refresh_data" /\ req.refresh.at = "log"
  /\ CanRun("refresh")
  /\ df' \in {df, Null}
  /\ req' = [req EXCEPT !.refresh.at = "respond"]
  /\ loop' = "refresh"
  /\ UNCHANGED resp
  /\ ServerFrame

\* refresh_data: df = get_database(); message or HTTPException(500)
RefreshRespond ==
  /\ req.refresh.fn = "refresh_data" /\ req.refresh.at = "respond"
  /\ CanRun("refresh")
  /\ resp' = [handler |-> "refresh_data",
              status |-> IF df = Null THEN 500 ELSE 200,
              tag |-> "", engine |-> "none", rows |-> "none"]
  /\ req' = [req EXCEPT !.refresh = [fn |-> "none", n |-> @.n, at |-> "idle"]]
  /\ loop' = "idle"
  /\ UNCHANGED df
  /\ ServerFrame

Next ==
  \/ Startup
  \/ SearchArrive \/ SearchDispatch \/ DbCheck \/ DbFilter \/ DbSample
  \/ SearchGet
  \/ RefreshArrive \/ RefreshLoad \/ RefreshLog \/ RefreshRespond

Spec == Init /\ [][Next]_vars

(***************************************************************************)
(* C2 as stated: every successful search response comes from the engine    *)
(* the request's mode names, and the tag returned with the rows names the  *)
(* engine that produced them.                                              *)
(***************************************************************************)
EngineNamed(mode) ==
  IF mode \in {"ml", "hybrid"} THEN "semantic"
  ELSE IF mode = "lexical" THEN "lexical"
  ELSE "db"

CexC2 ==
  (pc = "serving" /\ resp # NoCall
     /\ resp.handler = "search_products" /\ resp.status = 200)
  => resp.engine = EngineNamed(resp.tag)

(***************************************************************************)
(* C5: whatever the interleaving of a refresh with a search request in     *)
(* flight, all the reads the request makes of the catalog (readiness       *)
(* check, filter, sample) see one and the same snapshot, and none of them  *)
(* sees an absent snapshot once the readiness check has passed.            *)
(***************************************************************************)
ThmC5 ==
  req.search.fn = "search_products" =>
    \A i \in DOMAIN req.search.reads, j \in DOMAIN req.search.reads :
      req.search.reads[i] = req.search.reads[j]

\* a request has read the snapshot twice and has reads left to make while
\* a refresh, not the first one, is waiting to replace that snapshot
WitC5 ==
  /\ req.search.fn = "search_products" /\ req.search.at = "db_filter"
  /\ Len(req.search.reads) = 2
  /\ req.refresh.fn = "refresh_data" /\ req.refresh.at = "load"
  /\ req.refresh.n = 2 /\ df = Val(1)

(***************************************************************************)
(* C10: minmax keeps the length, every element lies in [0,1], the empty    *)
(* array maps to the empty array, and an array whose elements are all      *)
(* equal (a single element included) maps to all zeros.                    *)
(***************************************************************************)
MinmaxOk(a, m) ==
  /\ Len(m) = Len(a)
  /\ \A i \in DOMAIN m : 0 <= m[i] /\ m[i] <= Scale
  /\ (a = <<>> => m = <<>>)
  /\ ((\A i, j \in DOMAIN a : a[i] = a[j]) => \A i \in DOMAIN m : m[i] = 0)

ThmC10 ==
  (inp.fn = "fuse" /\ pc # "start") =>
     /\ MinmaxOk(inp.s_click, loc.mm_click)
     /\ MinmaxOk(inp.s_order, loc.mm_order)

WitC10 ==
  /\ inp.fn = "fuse" /\ pc = "normalised"
  /\ Len(inp.s_click) = 3
  /\ \A i \in 1..3 : inp.s_click[i] = 1
  /\ \E i \in 1..3 : 0 < loc.mm_order[i] /\ loc.mm_order[i] < Scale

(***************************************************************************)
(* C6: top-K selection returns exactly min(k, n) distinct candidate        *)
(* indices, they are indices of the k largest fused values, and they are   *)
(* listed in descending fused-score order.                                 *)
(***************************************************************************)
TopKOk(final, k, idx) ==
  LET n == Len(final)
      chosen == {idx[i] : i \in DOMAIN idx}
  IN /\ Len(idx) = (IF k < n THEN k ELSE n)
     /\ chosen \subseteq 1..n
     /\ Cardinality(chosen) = Len(idx)
     /\ \A i \in chosen : \A j \in (1..n) \ chosen : final[i] >= final[j]
     /\ \A i \in 1..(Len(idx) - 1) : final[idx[i]] >= final[idx[i + 1]]

ThmC6 ==
  (inp.fn = "fuse" /\ pc = "done") => TopKOk(loc.final, inp.k, ret.order_idx)

WitC6 ==
  /\ inp.fn = "fuse" /\ pc = "done"
  /\ Len(loc.final) = 3 /\ inp.k = 2
  /\ loc.final[1] < loc.final[2] /\ loc.final[2] < loc.final[3]
  /\ ret.order_idx = <<3, 2>>

(***************************************************************************)
(* C11: the fused score of each candidate is 0.3 times its min-max         *)
(* normalised click score plus 0.7 times its min-max normalised order      *)
(* score; click scores [0.2, 0.8] and order scores [0.6, 0.4] fuse to      *)
(* [0.7, 0.3] and the first candidate ranks first.                         *)
(***************************************************************************)
\* m is a (x - min) / (max - min) on the 1/Scale grid, zeros when max = min
IsNormOf(m, a) ==
  /\ Len(m) = Len(a)
  /\ \A i \in DOMAIN a :
       LET w == SeqMax(a) - SeqMin(a)
           d == 2 * m[i] * w - 2 * (a[i] - SeqMin(a)) * Scale
       IN IF w = 0 THEN m[i] = 0 ELSE d <= w /\ 0 - d <= w

ThmC11 ==
  (inp.fn = "fuse" /\ pc \in {"fused", "done"}) =>
     /\ IsNormOf(loc.mm_click, inp.s_click)
     /\ IsNormOf(loc.mm_order, inp.s_order)
     /\ Len(loc.final) = Len(inp.s_click)
     /\ \A i \in DOMAIN loc.final :
          loc.final[i] = 3 * loc.mm_click[i] + 7 * loc.mm_order[i]
     /\ (inp.s_click = <<2, 8>> /\ inp.s_order = <<6, 4>>) =>
          /\ loc.final = <<7 * Scale, 3 * Scale>>
          /\ (pc = "done" /\ inp.k >= 1) => ret.order_idx[1] = 1

WitC11 ==
  /\ inp.fn = "fuse" /\ pc = "done"
  /\ inp.s_click = <<2, 8>> /\ inp.s_order = <<6, 4>> /\ inp.k = 2
  /\ loc.mm_click = <<0, Scale>> /\ loc.mm_order = <<Scale, 0>>
  /\ ret.order_idx = <<1, 2>>
  /\ ret.score = <<7 * Scale, 3 * Scale>>

(***************************************************************************)
(* Lexical recall on its own: retrieve_ids of the prod package             *)
(* (ai_model.py, ml_search.py) and of api_server.py, applied to any        *)
(* similarity row and any query.                                           *)
(***************************************************************************)
MaxSim == 9      \* cosine similarities in tenths, 0..MaxSim

\* api_server.retrieve_ids: no readiness test (the artifacts are loaded at
\* import), and a bare [] instead of a pair for an empty query
api_retrieve_ids(query, sims, topk) ==
  IF norm_query(query) = <<>> THEN {[kind |-> "list", order |-> <<>>]}
  ELSE {[kind |-> "ok", order |-> Take(Reverse(p), topk)] : p \in argsort(sims)}

RecallQueries == {QueryText, QueryBlank, <<>>, <<" ", " ">>, NonString}
RecallArtifacts ==
  {[AllLex EXCEPT !.vec = v, !.id_list = i] : v \in BOOLEAN, i \in BOOLEAN}

InitRecall ==
  /\ fe = Null /\ imported = NoArt /\ df = Null
  /\ loop = "idle" /\ req = NoCall /\ resp = NoCall
  /\ \E entry \in {"prod", "api_server"}, topk \in 0..(Len(CorpusIds) + 1) :
       \/ /\ art \in RecallArtifacts
          /\ entry = "api_server" => art = AllLex
          /\ \E q \in RecallQueries :
               /\ art = AllLex => q # QueryText
               /\ inp = [fn |-> "retrieve_ids", entry |-> entry, query |-> q,
                         sims |-> [i \in DOMAIN CorpusIds |-> 1], topk |-> topk]
       \/ /\ art = AllLex
          /\ \E sims \in [DOMAIN CorpusIds -> 0..MaxSim] :
               inp = [fn |-> "retrieve_ids", entry |-> entry, query |-> QueryText,
                      sims |-> sims, topk |-> topk]
  /\ pc = "start"
  /\ loc = NoCall
  /\ ret = NoCall

\* return [id_list[i] for i in order], sims[order]
RetrieveIds ==
  /\ pc = "start" /\ inp.fn = "retrieve_ids"
  /\ \E r \in IF inp.entry = "prod"
               THEN retrieve_ids(art, inp.query, inp.sims, inp.topk)
               ELSE api_retrieve_ids(inp.query, inp.sims, inp.topk) :
       ret' = IF r.kind = "raise" THEN r
              ELSE [kind |-> r.kind, ids |-> Gather(CorpusIds, r.order),
                    scores |-> Gather(inp.sims, r.order)]
  /\ pc' = "done"
  /\ UNCHANGED loc
  /\ PipelineFrame

\* the caller's "ids_ret, sims = retrieve_ids(query, topk)" (ml_search) and
\* "ids_ret, _ = retrieve_ids(query, topk)" (api_server.rank_query): a bare
\* empty list cannot be unpacked into two names
UnpackRecall ==
  /\ pc = "done" /\ inp.fn = "retrieve_ids"
  /\ ret' = IF ret.kind = "list"
            THEN [kind |-> "raise", error |-> "ValueError"]
            ELSE ret
  /\ pc' = "unpacked"
  /\ UNCHANGED loc
  /\ PipelineFrame

NextRecall == RetrieveIds \/ UnpackRecall

SpecRecall == InitRecall /\ [][NextRecall]_vars

(***************************************************************************)
(* C12: for a non-empty normalised query over a corpus of N rows, lexical  *)
(* recall with parameter k returns the IDs of the min(k, N) rows of        *)
(* highest similarity in descending similarity order, with a score         *)
(* sequence of the same length whose position j is the similarity of the   *)
(* j-th returned ID; IDs [a, b, c] with similarities [0.9, 0.1, 0.5] and   *)
(* k = 2 give [a, c] with [0.9, 0.5].                                      *)
(***************************************************************************)
SimOf(id) == inp.sims[CHOOSE i \in DOMAIN CorpusIds : CorpusIds[i] = id]

ThmC12 ==
  (inp.fn = "retrieve_ids" /\ pc = "done" /\ ret.kind = "ok"
     /\ norm_query(inp.query) # <<>> /\ art = AllLex) =>
     LET n == Len(CorpusIds)
         returned == {ret.ids[j] : j \in DOMAIN ret.ids}
     IN /\ Len(ret.ids) = (IF inp.topk < n THEN inp.topk ELSE n)
        /\ Len(ret.scores) = Len(ret.ids)
        /\ Cardinality(returned) = Len(ret.ids)
        /\ \A j \in DOMAIN ret.ids : ret.scores[j] = SimOf(ret.ids[j])
        /\ \A j \in 1..(Len(ret.scores) - 1) : ret.scores[j] >= ret.scores[j + 1]
        /\ \A i \in DOMAIN CorpusIds :
              CorpusIds[i] \notin returned =>
                 \A j \in DOMAIN ret.scores : inp.sims[i] <= ret.scores[j]
        /\ (inp.sims = <<9, 1, 5>> /\ inp.topk = 2) =>
              ret.ids = <<"a", "c">> /\ ret.scores = <<9, 5>>

WitC12 ==
  /\ inp.fn = "retrieve_ids" /\ pc = "done" /\ ret.kind = "ok"
  /\ inp.entry = "prod" /\ art = AllLex /\ inp.query = QueryText
  /\ inp.sims = <<9, 1, 5>> /\ inp.topk = 2
  /\ ret.ids = <<"a", "c">> /\ ret.scores = <<9, 5>>

(***************************************************************************)
(* C13 as stated: for every query that is empty, whitespace-only, made     *)
(* only of dropped characters or not a string, the normaliser returns the  *)
(* empty string and lexical recall hands its caller an empty candidate     *)
(* set without raising, in every entry point.                              *)
(***************************************************************************)
CexC13 ==
  (inp.fn = "retrieve_ids" /\ inp.query \in RecallQueries \ {QueryText}) =>
     /\ norm_query(inp.query) = <<>>
     /\ pc \in {"done", "unpacked"} => ret.kind # "raise"
     /\ pc = "unpacked" => ret.kind = "ok" /\ ret.ids = <<>> /\ ret.scores = <<>>

(***************************************************************************)
(* The normalisers on their own: norm_query and norm_text applied once     *)
(* and then again to their own output.                                     *)
(***************************************************************************)
MaxQuery == 3    \* characters per input string

Strings == UNION {[1..n -> Chars] : n \in 0..MaxQuery} \cup {NonString}

InitNorm ==
  /\ ServerIdle
  /\ \E fn \in {"norm_query", "norm_text"}, str \in Strings :
       inp = [fn |-> fn, s |-> str]
  /\ pc = "start"
  /\ loc = NoCall
  /\ ret = NoCall

Normalize(fn, str) == IF fn = "norm_query" THEN norm_query(str) ELSE norm_text(str)

NormOnce ==
  /\ pc = "start" /\ inp.fn \in {"norm_query", "norm_text"}
  /\ ret' = [kind |-> "str", once |-> Normalize(inp.fn, inp.s)]
  /\ pc' = "once"
  /\ UNCHANGED <<inp, loc>>
  /\ ServerUnchanged

NormTwice ==
  /\ pc = "once" /\ inp.fn \in {"norm_query", "norm_text"}
  /\ ret' = [kind |-> "str", once |-> ret.once, twice |-> Normalize(inp.fn, ret.once)]
  /\ pc' = "twice"
  /\ UNCHANGED <<inp, loc>>
  /\ ServerUnchanged

NextNorm == NormOnce \/ NormTwice

SpecNorm == InitNorm /\ [][NextNorm]_vars

(***************************************************************************)
(* C14: normalising an already normalised string changes nothing, for      *)
(* norm_query and for norm_text.                                           *)
(***************************************************************************)
ThmC14 ==
  (inp.fn \in {"norm_query", "norm_text"} /\ pc = "twice") => ret.twice = ret.once

\* an input that the first pass does change (case, separator, accent)
WitC14 ==
  /\ inp.fn = "norm_query" /\ pc = "twice"
  /\ inp.s = <<"A", "-", "ce">>
  /\ ret.once = <<"a", " ", "c">>
  /\ ret.twice = ret.once

(***************************************************************************)
(* C15: when the embedding model, the ANN index or the dense ID list is    *)
(* not loaded, dense recall returns empty IDs and scores without raising,  *)
(* and a request in a semantic mode (ml, hybrid) made in that state ends   *)
(* in a failure response, never in a successful response.                  *)
(***************************************************************************)
DenseLoaded(a) == a.sbert_model /\ a.faiss_index /\ a.sbert_ids

CexC16 ==
  (IsHybrid /\ pc = "done" /\ art.reranker /\ HybridReady(inp.fn, art, fe)
     /\ norm_text(inp.query) # <<>>)
  => /\ ret.kind # "raise"
     /\ ret.kind = "frame" /\ ret.rows # <<>>

(***************************************************************************)
(* The DB engine on its own: service.db_search (db_search.py is the same   *)
(* function) over a snapshot of rows with text columns.  Text is a         *)
(* sequence of characters; in a query "." and "(" are the regular          *)
(* expression metacharacters they are for polars str.contains.             *)
(***************************************************************************)
MaxRows == 3      \* rows in the DB snapshot
MaxLimit == 2     \* limit of a request

Txt(a, b) == Val(<<a, b>>)
DbRow(id) ==
  IF id = 1 THEN [id |-> 1, content_title |-> Txt("A", "b"),
                  level1_category_name |-> Txt("x", "x"),
                  level2_category_name |-> Txt("x", "x"),
                  leaf_category_name |-> Txt("x", "x"),
                  content_rate_avg |-> Val(2), content_review_count |-> 1]
  ELSE IF id = 2 THEN [id |-> 2, content_title |-> Null,
                  level1_category_name |-> Txt("x", "x"),
                  level2_category_name |-> Txt("x", "x"),
                  leaf_category_name |-> Txt("a", "b"),
                  content_rate_avg |-> Null, content_review_count |-> 2]
  ELSE IF id = 3 THEN [id |-> 3, content_title |-> Txt("a", "b"),
                  level1_category_name |-> Txt("x", "x"),
                  level2_category_name |-> Txt("x", "x"),
                  leaf_category_name |-> Txt("x", "x"),
                  content_rate_avg |-> Val(2), content_review_count |-> 2]
  ELSE [id |-> 4, content_title |-> Val(<<"a", "c", "b">>),
                  level1_category_name |-> Txt("x", "x"),
                  level2_category_name |-> Txt("x", "x"),
                  leaf_category_name |-> Txt("x", "x"),
                  content_rate_avg |-> Val(1), content_review_count |-> 0]

DbIds == 1..4
RECURSIVE Arrangements(_, _)
\* the sequences of n distinct elements of S
Arrangements(S, n) ==
  IF n = 0 THEN {<<>>}
  ELSE UNION {{<<x>> \o t : t \in Arrangements(S \ {x}, n - 1)} : x \in S}

DbSnapshots ==
  UNION {{[i \in DOMAIN ids |-> DbRow(ids[i])] : ids \in Arrangements(DbIds, n)} :
           n \in 0..MaxRows}

DbQueries == {<<"a", "b">>, <<"A", "B">>, <<"x", "b">>, <<"a", ".", "b">>,
              <<"(">>, <<" ", " ">>, <<>>}

LowerChar(c) == IF c = "A" THEN "a" ELSE IF c = "B" THEN "b" ELSE c
LowerStr(t) == [i \in DOMAIN t |-> LowerChar(t[i])]

\* str.contains(pattern): the pattern is a regular expression
ValidPattern(pat) == \A i \in DOMAIN pat : pat[i] # "("
Contains(text, pat) ==
  \E off \in 0..(Len(text) - Len(pat)) :
     \A i \in DOMAIN pat : pat[i] = "." \/ pat[i] = text[off + i]

SearchColumns == {"content_title", "level1_category_name",
                  "level2_category_name", "leaf_category_name"}

\* the filter predicate: an OR over the four columns; a null column is
\* neither a match nor, alone, a reason to keep the row
RowMatches(row, pat) ==
  \E c \in SearchColumns : row[c] # Null /\ Contains(LowerStr(row[c][1]), pat)

\* sort key of [content_rate_avg.fill_null(0), content_review_count]
SortKey(row) ==
  (IF row.content_rate_avg = Null THEN 0 ELSE row.content_rate_avg[1]) * 10
    + row.content_review_count

\* the results db_search can return
db_search(d, query, limit) ==
  IF d = Null THEN {[kind |-> "rows", rows |-> <<>>]}
  ELSE
  LET snap == d[1]
      query_lower == LowerStr(query)
      random == {[kind |-> "rows", rows |-> [i \in DOMAIN p |-> snap[p[i]]]] :
                   p \in Arrangements(DOMAIN snap,
                                      IF limit < Len(snap) THEN limit ELSE Len(snap))}
  IN IF Strip(query_lower) = <<>> THEN random
     ELSE IF ~ValidPattern(query_lower) THEN {[kind |-> "raise", error |-> "ComputeError"]}
     ELSE LET filtered == SelectSeq(snap, LAMBDA r : RowMatches(r, query_lower))
              sample_size == IF limit * 2 < Len(filtered) THEN limit * 2 ELSE Len(filtered)
              sampled == {S \in SUBSET DOMAIN filtered : Cardinality(S) = sample_size}
              Sorted(S) == SortOrders([i \in DOMAIN filtered |-> 0 - SortKey(filtered[i])], S)
          IN IF Len(filtered) > 0
             THEN {[kind |-> "rows",
                    rows |-> Take([i \in DOMAIN p |-> filtered[p[i]]], limit)] :
                      p \in UNION {Sorted(S) : S \in sampled}}
             ELSE random

InitCatalog ==
  /\ art = NoArt /\ fe = Null /\ imported = NoArt
  /\ loop = "idle" /\ req = NoCall /\ resp = NoCall
  /\ df \in {Null} \cup {Val(snap) : snap \in DbSnapshots}
  /\ \E q \in DbQueries, limit \in 1..MaxLimit :
       inp = [fn |-> "db_search", query |-> q, limit |-> limit]
  /\ pc = "start"
  /\ loc = NoCall
  /\ ret = NoCall

DbSearch ==
  /\ pc = "start" /\ inp.fn = "db_search"
  /\ ret' \in db_search(df, inp.query, inp.limit)
  /\ pc' = "done"
  /\ UNCHANGED <<art, fe, imported, df, loop, req, resp, inp, loc>>

NextCatalog == DbSearch

SpecCatalog == InitCatalog /\ [][NextCatalog]_vars

(***************************************************************************)
(* C17 as stated: with the snapshot loaded and a non-empty query, the DB   *)
(* engine returns at most limit rows, each of which contains the           *)
(* lower-cased query as a substring of its title or of one of its three    *)
(* category names, ordered by rating average (null as 0) descending and    *)
(* then by review count descending.                                        *)
(***************************************************************************)
IsSubstring(text, q) ==
  \E off \in 0..(Len(text) - Len(q)) : \A i \in DOMAIN q : q[i] = text[off + i]

CexC17 ==
  (inp.fn = "db_search" /\ pc = "done" /\ df # Null
     /\ Strip(LowerStr(inp.query)) # <<>>)
  => /\ ret.kind = "rows"
     /\ Len(ret.rows) <= inp.limit
     /\ \A i \in DOMAIN ret.rows :
          \E c \in SearchColumns :
             /\ ret.rows[i][c] # Null
             /\ IsSubstring(LowerStr(ret.rows[i][c][1]), LowerStr(inp.query))
     /\ \A i \in 1..(Len(ret.rows) - 1) :
          SortKey(ret.rows[i]) >= SortKey(ret.rows[i + 1])

(***************************************************************************)
(* Discount percentage of a product, as format_product_response (main.py)  *)
(* and search_products (backend.py, merged_backend) derive it.  Prices     *)
(* are integers or null; the percentage is kept in tenths of a percent.    *)
(***************************************************************************)
MaxPrice == 3    \* small prices range over -1..MaxPrice

Prices == {Null} \cup {Val(x) : x \in (0 - 1)..MaxPrice \cup {80, 100}}

\* round(((original - selling) / original) * 100, 1) in tenths; a value
\* that falls exactly between two tenths may go either way in floating point
RoundTenths(original, selling) ==
  LET num == 1000 * (original - selling)
      q == num \div original
      r == num % original
  IN IF 2 * r < original THEN {q}
     ELSE IF 2 * r > original THEN {q + 1}
     ELSE {q, q + 1}

\* Python truth value of a price cell: None and 0 are false
TruthyPrice(cell) == cell # Null /\ cell[1] # 0

\* main.py: if original and selling and original > selling and original > 0
\* backend.py: if original > selling and original > 0
discount_pct(entry, original, selling) ==
  IF entry = "main"
  THEN IF TruthyPrice(original) /\ TruthyPrice(selling)
            /\ original[1] > selling[1] /\ original[1] > 0
       THEN {[kind |-> "value", pct |-> Val(t)] : t \in RoundTenths(original[1], selling[1])}
       ELSE {[kind |-> "value", pct |-> Null]}
  ELSE IF original = Null \/ selling = Null
       THEN {[kind |-> "raise", error |-> "TypeError"]}
       ELSE IF original[1] > selling[1] /\ original[1] > 0
       THEN {[kind |-> "value", pct |-> Val(t)] : t \in RoundTenths(original[1], selling[1])}
       ELSE {[kind |-> "value", pct |-> Null]}

InitDiscount ==
  /\ ServerIdle
  /\ \E entry \in {"main", "backend"}, o \in Prices, sp \in Prices :
       inp = [fn |-> "discount", entry |-> entry,
              original_price |-> o, selling_price |-> sp]
  /\ pc = "start"
  /\ loc = NoCall
  /\ ret = NoCall

Discount ==
  /\ pc = "start" /\ inp.fn = "discount"
  /\ ret' \in discount_pct(inp.entry, inp.original_price, inp.selling_price)
  /\ pc' = "done"
  /\ UNCHANGED <<inp, loc>>
  /\ ServerUnchanged

NextDiscount == Discount

SpecDiscount == InitDiscount /\ [][NextDiscount]_vars

(***************************************************************************)
(* C18 as stated: in every entry point the discount percentage is          *)
(* round(100 * (original - selling) / original, 1) exactly when            *)
(* original > selling > 0 and is null in every other case (original 0,     *)
(* selling 0, selling below 0, original not above selling); original 100   *)
(* and selling 80 give 20.0.                                               *)
(***************************************************************************)
CexC18 ==
  (inp.fn = "discount" /\ pc = "done"
     /\ inp.original_price # Null /\ inp.selling_price # Null) =>
     LET o == inp.original_price[1]
         sp == inp.selling_price[1]
     IN /\ ret.kind = "value"
        /\ IF o > sp /\ sp > 0
           THEN ret.pct # Null /\ ret.pct[1] \in RoundTenths(o, sp)
           ELSE ret.pct = Null
        /\ (o = 100 /\ sp = 80) => ret.pct = Val(200)

AllLoaded ==
  /\ pc = "serving"
  /\ \A n \in DOMAIN art : art[n]
  /\ fe # Null

CexC20 ==
  AllLoaded
  => /\ \A n \in DOMAIN art : imported[n] = art[n]
     /\ imported.fe = (fe # Null)
     /\ (req.search.fn = "search_products" /\ req.search.at = "done"
          /\ req.search.mode \in {"ml", "hybrid"}
          /\ resp # NoCall /\ resp.handler = "search_products")
         => resp.status = 200

(***************************************************************************)
(* C21 as stated: dense recall over an index of M vectors returns at most  *)
(* min(k, M) candidates, every one of them id_list[r] for a row r the      *)
(* search reported as a hit, and no ID twice.                              *)
(***************************************************************************)
Min2(x, y) == IF x <= y THEN x ELSE y

CexC21 ==
  (IsHybrid /\ pc \in {"join", "rerank"} /\ "ids" \in DOMAIN loc)
  => /\ Len(loc.ids) <= Min2(inp.recall_k, Len(SbertIds))
     /\ \A i \in DOMAIN loc.ids : \A j \in DOMAIN loc.ids :
          loc.ids[i] = loc.ids[j] => i = j

(***************************************************************************)
(* C22 as stated: after the load attempts, an engine that passes its       *)
(* readiness check has all of its parts loaded: lexical ready implies      *)
(* vocabulary, document vectors and id_list (with id_to_idx) present;      *)
(* dense ready implies model, ID list and ANN index present.               *)
(***************************************************************************)
CexC22 ==
  pc = "serving"
  => /\ MlReady(art, fe) => (art.vec /\ art.X_corpus /\ art.id_list)
     /\ HybridReady("ai_model", art, fe)
          => (art.sbert_model /\ art.sbert_ids /\ art.faiss_index)

(***************************************************************************)
(* C23 as stated: a refresh whose reload fails leaves the previously       *)
(* published catalog snapshot in place; once a load has completed with a   *)
(* snapshot, no step of the server leaves the catalog without a snapshot,  *)
(* so every later catalog_only request is served from a loaded snapshot.   *)
(***************************************************************************)
CexC23 ==
  [][(pc = "serving" /\ df # Null /\ req.refresh.at # "log") => df' # Null]_vars

(***************************************************************************)
(* C24 as stated: in a semantic call with a reranker present, the score    *)
(* of every selected candidate is 0.8 * minmax(reranker scores) + 0.2 *    *)
(* minmax(recall scores) at its row, hence within [0, 1] (0 .. 10 * Scale  *)
(* in tenths), and the selection is a top-K of that fused score.           *)
(***************************************************************************)
FusedSemantic(rr, sb) ==
  [i \in DOMAIN rr |-> W_RERANK * minmax(rr)[i] + W_RECALL * minmax(sb)[i]]

CexC24 ==
  (IsHybrid /\ pc = "assemble" /\ art.reranker)
  => LET fused == FusedSemantic(loc.reranker_scores, loc.sbert_scores)
     IN /\ loc.final_scores = Gather(fused, loc.order_idx)
        /\ loc.order_idx \in select_top_k(fused, inp.return_k)

(***************************************************************************)
(* C25 as stated: within one call the stages run in the order recall,      *)
(* feature computation, fusion with top-K selection, catalog join; the     *)
(* catalog join comes after the selection and is applied to the selected   *)
(* top-K candidates, not to the whole recalled set.                        *)
(***************************************************************************)
CexC25 ==
  (inp.fn = "ml_search" /\ "frame" \in DOMAIN loc)
  => /\ "order_idx" \in DOMAIN loc
     /\ Len(loc.frame) = Len(loc.order_idx)

(***************************************************************************)
(* The lexical index as the loader builds it from its three artifact       *)
(* files, and the two readers of the index: retrieve_ids and tfidf_score   *)
(* (ml_loader.py, ml_search.py).  The files are inputs: the loader reads   *)
(* each on its own and compares nothing.                                   *)
(***************************************************************************)
MaxCorpus == 3                      \* rows of tfidf_X / entries of ids.joblib
IndexIds == {"a", "b"}

IdLists == UNION {[1..n -> IndexIds] : n \in 1..MaxCorpus}
RowSims == UNION {[1..n -> 0..1] : n \in 1..MaxCorpus}

\* id_to_idx = {cid: i for i, cid in enumerate(id_list)}: a later row
\* replaces an earlier one under the same key
build_id_to_idx(l) ==
  [cid \in {l[i] : i \in DOMAIN l} |->
     CHOOSE i \in DOMAIN l : l[i] = cid /\ \A j \in DOMAIN l : l[j] = cid => j <= i]

InitIndex ==
  /\ art = NoArt /\ fe = Null /\ imported = NoArt /\ df = Null
  /\ loop = "idle" /\ req = NoCall /\ resp = NoCall
  /\ \E l \in IdLists, s \in RowSims, k \in 1..MaxCorpus :
       inp = [fn |-> "load_tfidf_models", id_list |-> l, sims |-> s,
              query |-> QueryText, topk |-> k]
  /\ pc = "load"
  /\ loc = NoCall
  /\ ret = NoCall

\* load_tfidf_models: the three loads and the dict, or the except branch
\* before anything was assigned
LoadTfidf ==
  /\ pc = "load" /\ inp.fn = "load_tfidf_models"
  /\ \/ /\ art' = [art EXCEPT !.vec = TRUE, !.X_corpus = TRUE, !.id_list = TRUE]
        /\ loc' = [id_list |-> inp.id_list,
                   id_to_idx |-> build_id_to_idx(inp.id_list),
                   rows |-> Len(inp.sims)]
        /\ pc' = "recall" /\ ret' = ret
     \/ /\ pc' = "done" /\ ret' = [kind |-> "not_loaded"]
        /\ UNCHANGED <<art, loc>>
  /\ UNCHANGED <<fe, imported, df, loop, req, resp, inp>>

\* retrieve_ids: order = argsort(sims)[::-1][:topk];
\* [id_list[i] for i in order] raises IndexError past the end of id_list
IndexRetrieve ==
  /\ pc = "recall" /\ inp.fn = "load_tfidf_models"
  /\ \E p \in argsort(inp.sims) :
       LET order == Take(Reverse(p), inp.topk)
       IN IF \E j \in DOMAIN order : order[j] > Len(loc.id_list)
          THEN /\ pc' = "done" /\ loc' = loc
               /\ ret' = [kind |-> "raise", error |-> "IndexError"]
          ELSE /\ pc' = "features" /\ ret' = ret
               /\ loc' = loc @@ [order |-> order,
                                 ids_ret |-> [j \in DOMAIN order |-> loc.id_list[order[j]]],
                                 sims_ret |-> Gather(inp.sims, order)]
  /\ PipelineFrame

\* tfidf_score for every recalled id: cosine of the query against
\* X_corpus[id_to_idx[cid]]; a row past the matrix raises IndexError
IndexScore ==
  /\ pc = "features" /\ inp.fn = "load_tfidf_models"
  /\ LET row(j) == loc.id_to_idx[loc.ids_ret[j]]
     IN IF \E j \in DOMAIN loc.ids_ret : row(j) > loc.rows
        THEN ret' = [kind |-> "raise", error |-> "IndexError"] /\ loc' = loc
        ELSE /\ ret' = [kind |-> "ok"]
             /\ loc' = loc @@ [tfidf_sim |->
                                 [j \in DOMAIN loc.ids_ret |-> inp.sims[row(j)]]]
  /\ pc' = "done"
  /\ PipelineFrame

NextIndex == LoadTfidf \/ IndexRetrieve \/ IndexScore

SpecIndex == InitIndex /\ [][NextIndex]_vars

(***************************************************************************)
(* C26 as stated: after a successful load of the lexical index, id_list    *)
(* has as many entries as the document matrix has rows and                 *)
(* id_to_idx[id_list[i]] = i for every row i, so no reader fails and the   *)
(* feature tfidf_score computes for a recalled candidate equals the        *)
(* similarity recall reported for it.                                      *)
(***************************************************************************)
CexC26 ==
  (inp.fn = "load_tfidf_models" /\ art.id_list)
  => /\ Len(loc.id_list) = loc.rows
     /\ \A i \in DOMAIN loc.id_list : loc.id_to_idx[loc.id_list[i]] = i
     /\ pc = "done" => (ret.kind = "ok" /\ loc.tfidf_sim = loc.sims_ret)

(***************************************************************************)
(* C27 as stated: the reranker is given exactly one document per recalled  *)
(* candidate, in candidate order, each document being the title (unless    *)
(* it is the placeholder), the second-level category and the leaf          *)
(* category (unless equal to the second-level one) joined by spaces, or    *)
(* the placeholder when all parts are empty.                               *)
(***************************************************************************)
DocOf(cid) ==
  LET row == LeftJoin(IdFrame(<<cid>>), fe[1])[1]
  IN build_doc_text(row.content_title, row.level2_category_name,
                    row.leaf_category_name)

CexC27 ==
  (IsHybrid /\ "docs" \in DOMAIN loc)
  => /\ Len(loc.docs) = Len(loc.ids)
     /\ \A i \in DOMAIN loc.ids : loc.docs[i] = DocOf(loc.ids[i])

(***************************************************************************)
(* Advanced search: POST /search/advanced of main.py (with                 *)
(* service.advanced_db_search) and of merged_backend copy.py, over a       *)
(* snapshot with categories, prices, ratings and review counts.            *)
(***************************************************************************)
AdvRow(id) ==
  IF id = 1 THEN [id |-> 1, content_title |-> Txt("a", "b"),
                  level1_category_name |-> Val(<<"m">>),
                  level2_category_name |-> Val(<<"p">>),
                  leaf_category_name |-> Txt("a", "b"),
                  selling_price |-> 1,
                  content_rate_avg |-> Val(2), content_review_count |-> 1]
  ELSE IF id = 2 THEN [id |-> 2, content_title |-> Txt("x", "x"),
                  level1_category_name |-> Val(<<"m">>),
                  level2_category_name |-> Val(<<"q">>),
                  leaf_category_name |-> Val(<<"a", "c", "b">>),
                  selling_price |-> 2,
                  content_rate_avg |-> Null, content_review_count |-> 2]
  ELSE [id |-> 3, content_title |-> Txt("A", "b"),
                  level1_category_name |-> Val(<<"w">>),
                  level2_category_name |-> Val(<<"p">>),
                  leaf_category_name |-> Txt("x", "x"),
                  selling_price |-> 3,
                  content_rate_avg |-> Val(1), content_review_count |-> 0]

AdvSnapshot == <<AdvRow(1), AdvRow(2), AdvRow(3)>>

\* the filters of an AdvancedSearchRequest; Null is a field left at None
AdvFilters ==
  [category_level1 : {Null, Val(<<"m">>)},
   category_level2 : {Null, Val(<<"p">>)},
   category_level2_list : {Null, Val({}), Val({<<"q">>})},
   category_leaf : {Null, Txt("a", "b"), Val(<<"a", ".", "b">>)},
   min_price : {Null, Val(2)},
   max_price : {Null, Val(2)},
   min_rating : {Null, Val(1)},
   min_review_count : {Null, Val(1)}]

RateOf(row) == IF row.content_rate_avg = Null THEN 0 ELSE row.content_rate_avg[1]

\* the chain of filters of advanced_db_search, str.contains taking its
\* argument as a regular expression
AdvKeeps(row, f, query) ==
  /\ f.category_level1 # Null => row.level1_category_name = f.category_level1
  /\ IF f.category_level2_list # Null /\ f.category_level2_list[1] # {}
     THEN row.level2_category_name[1] \in f.category_level2_list[1]
     ELSE f.category_level2 # Null => row.level2_category_name = f.category_level2
  /\ f.category_leaf # Null
       => Contains(LowerStr(row.leaf_category_name[1]), LowerStr(f.category_leaf[1]))
  /\ f.min_price # Null => row.selling_price >= f.min_price[1]
  /\ f.max_price # Null => row.selling_price <= f.max_price[1]
  /\ f.min_rating # Null => RateOf(row) >= f.min_rating[1]
  /\ f.min_review_count # Null => row.content_review_count >= f.min_review_count[1]
  /\ Strip(query) # <<>> => RowMatches(row, LowerStr(query))

advanced_db_search(d, f, query, limit) ==
  IF d = Null THEN {[kind |-> "rows", rows |-> <<>>]}
  ELSE LET filtered == SelectSeq(d[1], LAMBDA r : AdvKeeps(r, f, query))
           keys == [i \in DOMAIN filtered |-> 0 - SortKey(filtered[i])]
       IN {[kind |-> "rows", rows |-> Take([i \in DOMAIN p |-> filtered[p[i]]], limit)] :
             p \in SortOrders(keys, DOMAIN filtered)}

\* what the handler's "ml" branch receives from search_products, which is
\* given the query and the limit only: in main.py the 500 of the stale
\* readiness names; in merged_backend the rows the ML engine ranks for
\* the query, or its failure
ml_fallback(entry, d, query, limit) ==
  IF entry = "main" THEN {[kind |-> "error", status |-> 500]}
  ELSE {[kind |-> "error", status |-> 500]}
       \cup {[kind |-> "rows", rows |-> [i \in DOMAIN p |-> d[1][p[i]]]] :
               p \in UNION {Arrangements(DOMAIN d[1], n) :
                              n \in (IF Strip(query) = <<>> THEN {0} ELSE 0..limit)}}

advanced_search(entry, d, mode, f, query, limit) ==
  IF d = Null THEN {[kind |-> "error", status |-> 500]}
  ELSE IF mode = "ml" THEN ml_fallback(entry, d, query, limit)
  ELSE advanced_db_search(d, f, query, limit)

InitAdvanced ==
  /\ art = NoArt /\ fe = Null /\ imported = NoArt
  /\ loop = "idle" /\ req = NoCall /\ resp = NoCall
  /\ df \in {Null, Val(AdvSnapshot)}
  /\ \E entry \in {"main", "merged_backend"}, mode \in {"db", "ml", "hybrid"},
        f \in AdvFilters, q \in {<<>>, <<"a", "b">>}, limit \in 1..MaxLimit :
       inp = [fn |-> "advanced_search", entry |-> entry, mode |-> mode,
              filters |-> f, query |-> q, limit |-> limit]
  /\ pc = "start"
  /\ loc = NoCall
  /\ ret = NoCall

AdvancedSearch ==
  /\ pc = "start" /\ inp.fn = "advanced_search"
  /\ ret' \in advanced_search(inp.entry, df, inp.mode, inp.filters, inp.query, inp.limit)
  /\ pc' = "done"
  /\ UNCHANGED <<art, fe, imported, df, loop, req, resp, inp, loc>>

NextAdvanced == AdvancedSearch

SpecAdvanced == InitAdvanced /\ [][NextAdvanced]_vars

(***************************************************************************)
(* C28 as stated: in every mode, every product advanced search returns     *)
(* satisfies every filter supplied with the request (level-1 equality,     *)
(* level-2 list membership or else level-2 equality, leaf-category         *)
(* substring, price bounds, minimum rating with null as 0, minimum review  *)
(* count, text match), and at most limit products are returned.            *)
(***************************************************************************)
Satisfies(row, f, query) ==
  /\ f.category_level1 # Null => row.level1_category_name = f.category_level1
  /\ IF f.category_level2_list # Null /\ f.category_level2_list[1] # {}
     THEN row.level2_category_name[1] \in f.category_level2_list[1]
     ELSE f.category_level2 # Null => row.level2_category_name = f.category_level2
  /\ f.category_leaf # Null
       => IsSubstring(LowerStr(row.leaf_category_name[1]), LowerStr(f.category_leaf[1]))
  /\ f.min_price # Null => row.selling_price >= f.min_price[1]
  /\ f.max_price # Null => row.selling_price <= f.max_price[1]
  /\ f.min_rating # Null => RateOf(row) >= f.min_rating[1]
  /\ f.min_review_count # Null => row.content_review_count >= f.min_review_count[1]
  /\ Strip(query) # <<>>
       => \E c \in SearchColumns :
             row[c] # Null /\ IsSubstring(LowerStr(row[c][1]), LowerStr(query))

CexC28 ==
  (inp.fn = "advanced_search" /\ pc = "done" /\ ret.kind = "rows")
  => /\ Len(ret.rows) <= inp.limit
     /\ \A i \in DOMAIN ret.rows : Satisfies(ret.rows[i], inp.filters, inp.query)

(***************************************************************************)
(* C29: a search request in any mode leaves every shared structure         *)
(* unchanged: no step of a search handler changes the loaded artifacts,    *)
(* the feature table, the names bound from them or the catalog snapshot.   *)
(***************************************************************************)
SearchStep ==
  SearchArrive \/ SearchDispatch \/ DbCheck \/ DbFilter \/ DbSample \/ SearchGet

ThmC29 ==
  [][SearchStep => UNCHANGED <<art, fe, imported, df>>]_vars

\* a DB request has run to a 200 with rows, every read of its three having
\* seen the snapshot that is still published
WitC29 ==
  /\ req.search.fn = "search_products" /\ req.search.at = "done"
  /\ resp # NoCall /\ resp.handler = "search_products"
  /\ resp.status = 200 /\ resp.rows = "rows"
  /\ df # Null /\ Len(req.search.reads) = 3
  /\ \A i \in DOMAIN req.search.reads : req.search.reads[i] = df

(***************************************************************************)
(* The same DB request served twice against one snapshot: two calls of     *)
(* db_search with the same query and limit, nothing loaded in between.     *)
(***************************************************************************)
InitRepeat ==
  /\ art = NoArt /\ fe = Null /\ imported = NoArt
  /\ loop = "idle" /\ req = NoCall /\ resp = NoCall
  /\ df \in {Null} \cup {Val(snap) : snap \in DbSnapshots}
  /\ \E q \in DbQueries, limit \in 1..MaxLimit :
       inp = [fn |-> "db_search_twice", query |-> q, limit |-> limit]
  /\ pc = "first"
  /\ loc = NoCall
  /\ ret = NoCall

FirstRun ==
  /\ pc = "first" /\ inp.fn = "db_search_twice"
  /\ \E r \in db_search(df, inp.query, inp.limit) : loc' = [first |-> r]
  /\ pc' = "second"
  /\ UNCHANGED <<art, fe, imported, df, loop, req, resp, inp, ret>>

SecondRun ==
  /\ pc = "second" /\ inp.fn = "db_search_twice"
  /\ ret' \in db_search(df, inp.query, inp.limit)
  /\ pc' = "done"
  /\ UNCHANGED <<art, fe, imported, df, loop, req, resp, inp, loc>>

NextRepeat == FirstRun \/ SecondRun

SpecRepeat == InitRepeat /\ [][NextRepeat]_vars

(***************************************************************************)
(* C30 as stated: two runs with the same query, mode and limit against     *)
(* the same loaded state return the same ordered list of product IDs, in   *)
(* catalog_only mode too.                                                  *)
(***************************************************************************)
IdsOf(r) == IF r.kind = "rows" THEN [i \in DOMAIN r.rows |-> r.rows[i].id] ELSE <<>>

CexC30 ==
  (inp.fn = "db_search_twice" /\ pc = "done")
  => /\ ret.kind = loc.first.kind
     /\ IdsOf(ret) = IdsOf(loc.first)

====
